---- MODULE Spec2Model ----
(***************************************************************************)
(* Model of src/Prim.py: prim_mst(graph, start), the naive Prim loop that  *)
(* grows `visited` from {start} one cheapest crossing edge at a time.      *)
(*                                                                         *)
(* A graph is a Python dict of dicts.  Dicts iterate in insertion order,   *)
(* so graph[u] is modelled as the sequence of its items <<v, w>>.          *)
(* `visited` is a Python set of strings: its iteration order depends on    *)
(* the string hashes (randomised per process), so every iteration of the   *)
(* while loop scans the visited vertices in an arbitrary order.            *)
(***************************************************************************)
EXTENDS Integers, Sequences, FiniteSets, TLC

VARIABLES graph, start, visited, mst_edges, total_cost, step, scanned, warned, pc, result

\* graph, start : the arguments of the call, never modified
\* visited, mst_edges, total_cost, step : the locals of prim_mst
\* scanned : the candidate edges met by the scan of the last admitting
\*           iteration, in the order the nested loops met them
\* warned  : the not-connectable message has been printed
\* pc      : "while" in the loop, "returned" after return, "raised" after
\*           a KeyError left the function
\* result  : the returned tuple (mst_edges, total_cost)
vars == <<graph, start, visited, mst_edges, total_cost, step, scanned, warned, pc, result>>

(* ---------------------------- bounds ---------------------------------- *)

\* number of vertices of the enumerated input graphs
NumVertices == 3
\* largest edge weight of the enumerated input graphs
MaxWeight == 1

(* ------------------------- input graphs ------------------------------- *)

\* vertex labels, in the order crear_grafo_ejemplo inserts them
Labels == <<"A", "B", "C", "D", "E">>

\* a label that is never a key of an enumerated graph
Stranger == "Z"

\* best_edge = None
None == <<>>

KeySet(k) == {Labels[i] : i \in 1..k}

Weights == 0..MaxWeight

\* every label a neighbour entry may name
Neighbours == Labels \o <<Stranger>>

\* the dict {v: d[<<u, v>>]} of u, its items in label order
Items(u, d) ==
  LET RECURSIVE Build(_)
      Build(i) == IF i > Len(Neighbours) THEN <<>>
                  ELSE (IF <<u, Neighbours[i]>> \in DOMAIN d
                        THEN << <<Neighbours[i], d[<<u, Neighbours[i]>>]>> >>
                        ELSE <<>>)
                       \o Build(i + 1)
  IN Build(1)

\* the dict of dicts with keys K and directed entries d
MkGraph(K, d) == [u \in K |-> Items(u, d)]

\* the graph of crear_grafo_ejemplo
ExampleGraph ==
  [u \in KeySet(5) |->
     CASE u = "A" -> << <<"B", 2>>, <<"C", 3>> >>
       [] u = "B" -> << <<"A", 2>>, <<"C", 1>>, <<"D", 4>>, <<"E", 5>> >>
       [] u = "C" -> << <<"A", 3>>, <<"B", 1>>, <<"D", 3>> >>
       [] u = "D" -> << <<"B", 4>>, <<"C", 3>>, <<"E", 1>> >>
       [] u = "E" -> << <<"B", 5>>, <<"D", 1>> >>]

Pairs(K) == {p \in SUBSET K : Cardinality(p) = 2}

\* both directed entries of every undirected edge, with the same weight
Directed(E, wt) ==
  [a \in {x \in UNION {p \X p : p \in E} : x[1] # x[2]} |-> wt[{a[1], a[2]}]]

\* every symmetric graph on the first k labels, k <= NumVertices
SymGraphs ==
  UNION {UNION {{MkGraph(KeySet(k), Directed(E, wt)) : wt \in [E -> Weights]}
                : E \in SUBSET Pairs(KeySet(k))}
         : k \in 0..NumVertices}

Without(d, a) == [x \in DOMAIN d \ {a} |-> d[x]]

\* the malformed variants of the symmetric graph d: one direction of the edge
\* A-B missing, the two directions of A-B weighted differently, a negative
\* weight on A-B, and a neighbour of A that is no key
Variants(K, d) ==
  LET ab == <<"A", "B">>
      ba == <<"B", "A">>
  IN  (IF ab \in DOMAIN d
       THEN {MkGraph(K, Without(d, ab)), MkGraph(K, Without(d, ba)),
             MkGraph(K, [d EXCEPT ![ba] = @ + 1]),
             MkGraph(K, [d EXCEPT ![ab] = -1, ![ba] = -1])}
       ELSE {})
      \cup (IF "A" \in K THEN {MkGraph(K, d @@ (<<"A", Stranger>> :> 1))} ELSE {})

\* the malformed variants of every symmetric graph whose edges all weigh 1
MalformedGraphs ==
  UNION {UNION {Variants(KeySet(k), Directed(E, [p \in E |-> 1]))
                : E \in SUBSET Pairs(KeySet(k))}
         : k \in 0..NumVertices}

Graphs == SymGraphs \cup MalformedGraphs \cup {ExampleGraph}

(* --------------------------- prim_mst --------------------------------- *)

\* the loop condition off by one: the loop stops one vertex early
LoopCondOffByOne(vis, g) == Cardinality(vis) + 1 < Cardinality(DOMAIN g)

\* while len(visited) < len(graph)
LoopCond(vis, g) == Cardinality(vis) < Cardinality(DOMAIN g)

\* the orders in which `for u in visited` may yield the elements of the set
Orders(S) ==
  {o \in [1..Cardinality(S) -> S] : \A i, j \in 1..Cardinality(S) : o[i] = o[j] => i = j}

\* the filter left out: every neighbour is a candidate
UnvisitedAlways(v, vis) == TRUE

\* if v not in visited
Unvisited(v, vis) == v \notin vis

\* the edges (u, v, w) of `for v, w in graph[u].items()` that pass the filter
Crossing(u, items, vis) ==
  LET RECURSIVE Walk(_)
      Walk(i) == IF i > Len(items) THEN <<>>
                 ELSE (IF Unvisited(items[i][1], vis)
                       THEN << <<u, items[i][1], items[i][2]>> >>
                       ELSE <<>>)
                      \o Walk(i + 1)
  IN Walk(1)

\* the candidate edges in the order the two nested loops meet them
Candidates(g, order, vis) ==
  LET RECURSIVE Outer(_)
      Outer(i) == IF i > Len(order) THEN <<>>
                  ELSE Crossing(order[i], g[order[i]], vis) \o Outer(i + 1)
  IN Outer(1)

\* the weight comparison left out: the first candidate met is kept
BetterFirstMet(best, w) == best = None

\* the comparison not strict: a later candidate of equal weight replaces
BetterOrEqual(best, w) == best = None \/ w <= best[3]

\* `is not None and` for `is None or`: no candidate is ever taken
BetterNotNone(best, w) == best # None /\ w < best[3]

\* if best_edge is None or w < best_edge[2]
Better(best, w) == best = None \/ w < best[3]

\* best_edge after the scan of cands, starting from best
RECURSIVE ScanFrom(_, _)
ScanFrom(best, cands) ==
  IF cands = <<>> THEN best
  ELSE ScanFrom(IF Better(best, Head(cands)[3]) THEN Head(cands) ELSE best, Tail(cands))

\* total_cost = w for total_cost += w
AddCostAssign(total, w) == w

\* total_cost += w
AddCost(total, w) == total + w

\* the admitted vertex is not added
AddVisitedForgotten(vis, v) == vis

\* visited.add(v)
AddVisited(vis, v) == vis \cup {v}

Init ==
  /\ graph \in Graphs
  /\ start \in DOMAIN graph \cup {Stranger}
  /\ visited = {start}
  /\ mst_edges = <<>>
  /\ total_cost = 0
  /\ step = 1
  /\ scanned = <<>>
  /\ warned = FALSE
  /\ pc = "while"
  /\ result = None

\* one iteration of the while loop that finds a best edge and admits it
Admit ==
  /\ pc = "while"
  /\ LoopCond(visited, graph)
  /\ visited \subseteq DOMAIN graph
  /\ \E order \in Orders(visited) :
       LET cands == Candidates(graph, order, visited)
           best  == ScanFrom(None, cands)
       IN  /\ best # None
           /\ visited' = AddVisited(visited, best[2])
           /\ mst_edges' = Append(mst_edges, best)
           /\ total_cost' = AddCost(total_cost, best[3])
           /\ scanned' = cands
  /\ step' = step + 1
  /\ UNCHANGED <<graph, start, warned, pc, result>>

\* the iteration that finds no candidate: the message is printed, the loop
\* is left by break, and the final report and the return follow
Halt ==
  /\ pc = "while"
  /\ LoopCond(visited, graph)
  /\ visited \subseteq DOMAIN graph
  /\ \E order \in Orders(visited) : ScanFrom(None, Candidates(graph, order, visited)) = None
  /\ warned' = TRUE
  /\ scanned' = <<>>
  /\ result' = <<mst_edges, total_cost>>
  /\ pc' = "returned"
  /\ UNCHANGED <<graph, start, visited, mst_edges, total_cost, step>>

\* graph[u] for a visited u that is no key of graph raises KeyError
RaiseKeyError ==
  /\ pc = "while"
  /\ LoopCond(visited, graph)
  /\ ~ (visited \subseteq DOMAIN graph)
  /\ pc' = "raised"
  /\ UNCHANGED <<graph, start, visited, mst_edges, total_cost, step, scanned, warned, result>>

\* the loop condition is false: the final report, and return mst_edges, total_cost
Exit ==
  /\ pc = "while"
  /\ ~ LoopCond(visited, graph)
  /\ result' = <<mst_edges, total_cost>>
  /\ pc' = "returned"
  /\ UNCHANGED <<graph, start, visited, mst_edges, total_cost, step, scanned, warned>>

Next == Admit \/ Halt \/ RaiseKeyError \/ Exit

Spec == Init /\ [][Next]_vars

\* the call runs to completion: no step of it is postponed forever
FairSpec == Spec /\ WF_vars(Next)

(* ------------------- vocabulary of the properties --------------------- *)

Keys == DOMAIN graph

ItemSet(g, u) == {g[u][i] : i \in 1..Len(g[u])}

\* graph[u][v] = w implies graph[v][u] = w
Symmetric(g) ==
  \A u \in DOMAIN g : \A it \in ItemSet(g, u) :
     it[1] \in DOMAIN g /\ <<u, it[2]>> \in ItemSet(g, it[1])

\* every neighbour is a key of the graph
Closed(g) == \A u \in DOMAIN g : \A it \in ItemSet(g, u) : it[1] \in DOMAIN g

NonNegative(g) == \A u \in DOMAIN g : \A it \in ItemSet(g, u) : it[2] >= 0

\* the vertices joined to s by the undirected edges in E (sets {u, v})
RECURSIVE Grow(_, _)
Grow(S, E) ==
  LET T == S \cup {v \in UNION E : \E e \in E : v \in e /\ e \cap S # {}}
  IN  IF T = S THEN S ELSE Grow(T, E)

\* the undirected edges of g, as <<{u, v}, w>>
UEdges(g) == UNION {{<<{u, it[1]}, it[2]>> : it \in ItemSet(g, u)} : u \in DOMAIN g}

\* the connected component of s in g
Component(g, s) == Grow({s}, {e[1] : e \in UEdges(g)})

Connected(g) == \A s \in DOMAIN g : Component(g, s) = DOMAIN g

RECURSIVE SetCost(_)
SetCost(T) == IF T = {} THEN 0 ELSE LET e == CHOOSE x \in T : TRUE IN e[2] + SetCost(T \ {e})

\* the spanning trees of g: |g| - 1 edges that join every vertex
SpanningTrees(g) ==
  {T \in SUBSET UEdges(g) :
     /\ Cardinality(T) = Cardinality(DOMAIN g) - 1
     /\ \A s \in DOMAIN g : Grow({s}, {e[1] : e \in T}) = DOMAIN g}

\* the edges of a sequence of (u, v, w), undirected
AsSet(edges) == {<<{edges[i][1], edges[i][2]}, edges[i][3]>> : i \in 1..Len(edges)}

Endpoints(edges) == UNION {{edges[i][1], edges[i][2]} : i \in 1..Len(edges)}

RECURSIVE SeqCost(_)
SeqCost(edges) == IF edges = <<>> THEN 0 ELSE Head(edges)[3] + SeqCost(Tail(edges))

\* the tree after the first i admissions
Tree(i) == {start} \cup {mst_edges[j][2] : j \in 1..i}

\* the precondition of the contract: an undirected graph and a start in it
WellFormed == Symmetric(graph) /\ NonNegative(graph) /\ start \in Keys

TypeOK ==
  /\ pc \in {"while", "returned", "raised"}
  /\ warned \in BOOLEAN
  /\ step = Len(mst_edges) + 1

(* ------------------------------ claims -------------------------------- *)

\* C1: on a connected symmetric graph with non-negative weights and a start
\* that is a key, the returned edges are a spanning tree of the graph and the
\* returned total_cost is the least cost of any spanning tree, whatever
\* orders the visited set was scanned in.
C1_MinimumSpanningTree ==
  (pc = "returned" /\ WellFormed /\ Connected(graph)) =>
     /\ AsSet(result[1]) \in SpanningTrees(graph)
     /\ \A T \in SpanningTrees(graph) : result[2] <= SetCost(T)

\* a returned tree on a graph that also has a strictly dearer spanning tree
C1_Witness ==
  /\ pc = "returned" /\ WellFormed /\ Connected(graph)
  /\ Cardinality(Keys) >= 3
  /\ \E T \in SpanningTrees(graph) : result[2] < SetCost(T)

\* C2: on a connected symmetric graph and a start that is a key, prim_mst
\* returns |graph| - 1 edges and every vertex is an endpoint of one of them
\* (or the graph has one vertex, start, and no edge is returned).
C2_Spanning ==
  (pc = "returned" /\ Symmetric(graph) /\ start \in Keys /\ Connected(graph)) =>
     /\ Len(result[1]) = Cardinality(Keys) - 1
     /\ IF Cardinality(Keys) = 1
        THEN result[1] = <<>> /\ Keys = {start}
        ELSE Endpoints(result[1]) = Keys

C2_Witness ==
  /\ pc = "returned" /\ Symmetric(graph) /\ start \in Keys /\ Connected(graph)
  /\ Cardinality(Keys) >= 3
  /\ Len(result[1]) = Cardinality(Keys) - 1

\* C3: every edge (u, v, w) in mst_edges had u in the tree and v outside it
\* when it was appended, so taking the edges in order never joins two
\* vertices that the earlier edges already connect.
C3_Acyclic ==
  \A i \in 1..Len(mst_edges) :
     /\ mst_edges[i][1] \in Tree(i - 1)
     /\ mst_edges[i][2] \notin Tree(i - 1)
     /\ mst_edges[i][2] \notin
          Grow({mst_edges[i][1]}, {{mst_edges[j][1], mst_edges[j][2]} : j \in 1..(i - 1)})

\* two admissions on a graph that has an edge between two tree vertices
\* which is not a tree edge (admitting it would have closed a cycle)
C3_Witness ==
  /\ Len(mst_edges) >= 2
  /\ \E u \in visited \cap Keys : \E it \in ItemSet(graph, u) :
        it[1] \in visited /\ <<{u, it[1]}, it[2]>> \notin AsSet(mst_edges)

\* C4: total_cost is the sum of the weights of the edges in mst_edges after
\* every iteration, and the returned cost is the sum over the returned edges.
C4_CostConsistent ==
  /\ total_cost = SeqCost(mst_edges)
  /\ pc = "returned" => result[2] = SeqCost(result[1])

C4_Witness ==
  /\ pc = "returned"
  /\ Len(result[1]) >= 2
  /\ result[2] > result[1][Len(result[1])][3]

\* complete: true iff |visited| == |graph| at halt
Complete == Cardinality(visited) = Cardinality(Keys)

RECURSIVE InsertionOrderRun(_, _, _, _)
InsertionOrderRun(g, order, edges, cost) ==
  LET vis  == {order[i] : i \in 1..Len(order)}
      best == ScanFrom(None, Candidates(g, order, vis))
  IN  IF ~ LoopCond(vis, g) \/ best = None THEN <<edges, cost>>
      ELSE InsertionOrderRun(g, Append(order, best[2]), Append(edges, best),
                             AddCost(cost, best[3]))

\* C6: every run on the same graph and start returns the same edge sequence
\* and the same cost, whatever orders the visited set is scanned in: every
\* returned result is the result of the insertion-order run.
C6_Deterministic ==
  (pc = "returned" /\ WellFormed) =>
     result = InsertionOrderRun(graph, <<start>>, <<>>, 0)

\* C7: with a start that is not a key of the graph prim_mst never returns a
\* normal (edges, cost) result.  (Stated for graphs with at least one key: in
\* the empty graph no start is a key.)
C7_InvalidStartFails == ~ (Keys # {} /\ start \notin Keys /\ pc = "returned")

\* C8: on a graph with asymmetric adjacency or a negative weight prim_mst
\* admits no edge and never returns a normal result.
C8_MalformedGraphFails ==
  (~ Symmetric(graph) \/ ~ NonNegative(graph)) =>
     mst_edges = <<>> /\ pc # "returned"

\* the edges from the tree to the outside, by the graph itself
CrossingEdges(tree) ==
  UNION {{<<u, it[1], it[2]>> : it \in {x \in ItemSet(graph, u) : x[1] \notin tree}}
         : u \in tree \cap Keys}

\* C9: the last admitted edge (u, v, w) goes from the tree to a vertex outside
\* it, no edge from the tree to the outside is lighter, and it is the first
\* edge of its weight in the scan that chose it; on the example graph from A
\* the run returns (A,B,2), (B,C,1), (C,D,3), (D,E,1) and cost 7.
C9_GreedyFirstMinimum ==
  /\ scanned # <<>> =>
       LET n    == Len(mst_edges)
           e    == mst_edges[n]
           tree == Tree(n - 1)
       IN  /\ e[1] \in tree /\ e[2] \notin tree
           /\ e \in CrossingEdges(tree)
           /\ \A c \in CrossingEdges(tree) : e[3] <= c[3]
           /\ {scanned[i] : i \in 1..Len(scanned)} = CrossingEdges(tree)
           /\ \E i \in 1..Len(scanned) :
                 /\ scanned[i] = e
                 /\ \A j \in 1..(i - 1) : scanned[j][3] > e[3]
  /\ (pc = "returned" /\ graph = ExampleGraph /\ start = "A") =>
       result = << << <<"A", "B", 2>>, <<"B", "C", 1>>, <<"C", "D", 3>>, <<"D", "E", 1>> >>, 7 >>

\* an admission whose scan met two lightest candidates from different tree
\* vertices: the earlier one was admitted
C9_Witness ==
  /\ scanned # <<>>
  /\ \E i, j \in 1..Len(scanned) :
        /\ i < j
        /\ scanned[i] = mst_edges[Len(mst_edges)]
        /\ scanned[j][3] = scanned[i][3]
        /\ scanned[j][1] # scanned[i][1]

====
